---- MODULE Spec2Model ----
(***************************************************************************)
(* A model of sfsm: the declaration parser of sfsm-proc (parsers.rs) and   *)
(* the dispatcher that add_state_machine! expands to (the expansion        *)
(* documented in sfsm-proc/src/lib.rs), driven through the traits of       *)
(* sfsm-base (lib.rs, fallible.rs).                                        *)
(***************************************************************************)
EXTENDS Integers, Sequences, FiniteSets, TLC

VARIABLES
    machine,    \* the parsed Machine the dispatcher was generated from
    mode,       \* "plain" (add_state_machine) or "fallible"
    phase,      \* "NotStarted", "Running" or "Stopped" (the instance's lifecycle)
    states,     \* the tagged union: [tag |-> variant id, slot |-> Option<state>]
    do_entry,   \* the pending-entry flag
    error,      \* fallible mode: the error waiting for consume_error, or NoError
    nsteps,     \* number of step() calls since start
    raised,     \* fallible mode: the Custom errors raised so far, in order
    consumed,   \* fallible mode: the payloads consume_error has received, in order
    last,       \* the last external call: its name, the variant and value it
                \* found, the hooks it invoked in order, and its result
    twin,       \* a fallible dispatcher driven by the same calls as the plain one
    input       \* the declaration handed to the parser (the macro's input)

vars == <<machine, mode, phase, states, do_entry, error, nsteps, raised, consumed, last,
          twin, input>>

(***************************************************************************)
(* Bounds of the model.                                                    *)
(***************************************************************************)
\* step() calls per run
MaxSteps == 6
\* Custom errors raised per run (fallible mode)
MaxErrors == 2
\* Commands delivered to one activation of a state
MaxPushes == 2
MaxStates == 2         \* declared states of a declaration handed to the parser
MaxTransitions == 2    \* declared transitions of such a declaration

(***************************************************************************)
(* Declarations: StateRefs, transitions, machines (parsers.rs)             *)
(***************************************************************************)
\* The characters state_to_enum removes from the rendered generic arguments.
StrippedTokens == {"'", "<", ">", "&", " ", ",", "]", "["}

\* convert_case's Case::Pascal on one word of the argument rendering.
PascalWord(w) ==
    CASE w = "up" -> "Up"
      [] w = "down" -> "Down"
      [] w = "u8" -> "U8"
      [] OTHER -> w

RECURSIVE PascalJoin(_)
PascalJoin(toks) ==
    IF toks = <<>> THEN ""
    ELSE IF Head(toks) \in StrippedTokens THEN PascalJoin(Tail(toks))
    ELSE PascalWord(Head(toks)) \o PascalJoin(Tail(toks))

\* State::state_to_enum: name ++ PascalCase(stripped generics) ++ "State".
\* generics is the token sequence of the angle-bracketed arguments, <<>> for None.
state_to_enum(name, generics) ==
    name \o PascalJoin(generics) \o "State"

\* impl Parse for State: a name, optionally generic arguments, no transits yet.
ParseState(name, generics) ==
    [name |-> name, transits |-> <<>>, generics |-> generics,
     enum_name |-> state_to_enum(name, generics)]

\* impl Parse for Transition: src => dst.
ParseTransition(src, dst) == [src |-> src, dst |-> dst]

\* ParseMachine collecting a state's destinations last declared first.
ParseMachine_Reversed(name, init, states_names, transitions) ==
    [name |-> name,
     init |-> init,
     states |-> [i \in 1..Len(states_names) |->
                    LET state == states_names[i]
                        matching == SelectSeq(transitions,
                                      LAMBDA trans : trans.src.enum_name = state.enum_name)
                    IN [name |-> state.name,
                        transits |-> [k \in 1..Len(matching) |->
                                         matching[Len(matching) + 1 - k].dst],
                        generics |-> state.generics,
                        enum_name |-> state.enum_name]],
     enum_name |-> name \o "States"]

\* impl Parse for Machine: every declared state gets, in declaration order, the
\* destinations of the transitions whose source has its enum_name.
ParseMachine(name, init, states_names, transitions) ==
    [name |-> name,
     init |-> init,
     states |-> [i \in 1..Len(states_names) |->
                    LET state == states_names[i]
                        matching == SelectSeq(transitions,
                                      LAMBDA trans : trans.src.enum_name = state.enum_name)
                    IN [name |-> state.name,
                        transits |-> [k \in 1..Len(matching) |-> matching[k].dst],
                        generics |-> state.generics,
                        enum_name |-> state.enum_name]],
     enum_name |-> name \o "States"]

MoveUp == ParseState("Move", <<"<", "Up", ">">>)
MoveDown == ParseState("Move", <<"<", "Down", ">">>)
Load == ParseState("Load", <<>>)
Process == ParseState("Process", <<>>)
Fault == ParseState("Fault", <<>>)

\* add_state_machine!(Elevator, Move<Up>, [Move<Up>, Move<Down>], [Move<Up> => Move<Down>])
Elevator ==
    ParseMachine("Elevator", MoveUp, <<MoveUp, MoveDown>>,
                 <<ParseTransition(MoveUp, MoveDown)>>)

\* add_state_machine!(Loader, Load, [Load, Process, Fault], [Load => Process, Process => Load])
Loader ==
    ParseMachine("Loader", Load, <<Load, Process, Fault>>,
                 <<ParseTransition(Load, Process), ParseTransition(Process, Load)>>)

\* impl Parse for Message: a name and optional generic arguments.
ParseMessage(name, generics) == [name |-> name, generics |-> generics]

\* ParseStateMessage reading the two arrows the wrong way round.
ParseStateMessage_Swapped(message, arrow, state) ==
    IF arrow = "->"
    THEN [ok |-> TRUE, message |-> [dir |-> "Poll", message |-> message], state |-> state]
    ELSE IF arrow = "<-"
    THEN [ok |-> TRUE, message |-> [dir |-> "Push", message |-> message], state |-> state]
    ELSE [ok |-> FALSE, message |-> [dir |-> "", message |-> message], state |-> state]

\* impl Parse for StateMessage: Message -> State is a push into the state,
\* Message <- State a poll from it, anything else a parse error.
ParseStateMessage(message, arrow, state) ==
    IF arrow = "->"
    THEN [ok |-> TRUE, message |-> [dir |-> "Push", message |-> message], state |-> state]
    ELSE IF arrow = "<-"
    THEN [ok |-> TRUE, message |-> [dir |-> "Poll", message |-> message], state |-> state]
    ELSE [ok |-> FALSE, message |-> [dir |-> "", message |-> message], state |-> state]

\* impl Parse for Messages: the machine's name and its message bindings.
ParseMessages(name, state_messages) ==
    [name |-> name, enum_name |-> name \o "States", messages |-> state_messages]

\* add_messages!(Loader, [Command -> Load, Status <- Load])
LoaderMessages ==
    ParseMessages("Loader",
        <<ParseStateMessage(ParseMessage("Command", <<>>), "->", Load),
          ParseStateMessage(ParseMessage("Status", <<>>), "<-", Load)>>)

\* The Elevator declares no messages.
ElevatorMessages == ParseMessages("Elevator", <<>>)

\* The bindings of one direction declared for machine m.
Bindings(m, dir) ==
    LET decl == IF m.name = "Loader" THEN LoaderMessages ELSE ElevatorMessages
    IN {decl.messages[i] : i \in {k \in 1..Len(decl.messages) :
                                     decl.messages[k].message.dir = dir}}

Machines == {Elevator, Loader}

\* The variants of the generated enum, and the entry of one variant.
Variants(m) == {m.states[i].enum_name : i \in 1..Len(m.states)}
StateOf(m, v) == m.states[CHOOSE i \in 1..Len(m.states) : m.states[i].enum_name = v]
HasTransit(m, v) == StateOf(m, v).transits # <<>>
Dest(m, v) == Head(StateOf(m, v).transits).enum_name

(***************************************************************************)
(* The runtime contract (sfsm-base) and the user's implementations of it   *)
(***************************************************************************)
\* enum TransitGuard and impl From<bool> for TransitGuard.
TransitGuard == {"Remain", "Transit"}
From(transit) == IF transit THEN "Transit" ELSE "Remain"

\* Option<T>: None is <<>>, Some(x) is <<x>>.
None == <<>>
Some(x) == <<x>>

\* The hooks the dispatcher calls: the State trait's, the Transition trait's,
\* the Into conversion, and the message traits'.
StateEntry == [hook |-> "entry", level |-> "state"]
TransEntry == [hook |-> "entry", level |-> "transition"]
StateExecute == [hook |-> "execute", level |-> "state"]
TransExecute == [hook |-> "execute", level |-> "transition"]
Guard == [hook |-> "guard", level |-> "transition"]
StateExit == [hook |-> "exit", level |-> "state"]
TransExit == [hook |-> "exit", level |-> "transition"]
Into == [hook |-> "into", level |-> "transition"]
Receive == [hook |-> "push_message", level |-> "state"]
ReturnMessage == [hook |-> "poll_message", level |-> "state"]
ConsumeError == [hook |-> "consume_error", level |-> "state"]

\* Whether hook h is among the hooks a call has invoked.
Occurs(h, hooks) == \E i \in 1..Len(hooks) : hooks[i] = h

\* The counter value at which the Elevator's Move<Up> guard answers Transit.
GuardThreshold == 3

\* Messages a caller pushes (Command) are numbers; a Status is the counter value.
Commands == {1, 2}

\* A state value as the user's implementation keeps it: cnt is advanced by
\* execute, entered and exited count the state-level entry and exit calls,
\* cmd holds the Command received last, received counts the Commands
\* received, status is the Status not yet polled.
NewValue ==
    [cnt |-> 0, entered |-> 0, exited |-> 0, cmd |-> None, received |-> 0,
     status |-> None]

\* What a hook of the user's implementation does to the state value.
Apply(h, v, state) ==
    CASE h = StateEntry -> [state EXCEPT !.entered = @ + 1]
      [] h = StateExecute ->
            IF v = "LoadState"
            THEN [state EXCEPT !.cnt = @ + 1, !.status = Some(state.cnt + 1)]
            ELSE [state EXCEPT !.cnt = @ + 1]
      [] h = StateExit -> [state EXCEPT !.exited = @ + 1]
      [] OTHER -> state

\* The user's PushMessage<Command>::push_message: keeps the command.
receive(state, message) ==
    [state EXCEPT !.cmd = Some(message), !.received = @ + 1]

\* The user's PollMessage<Status>::poll_message: hands out the pending
\* status, if any, and keeps none.
return_message(state) ==
    [message |-> state.status, state |-> [state EXCEPT !.status = None]]

\* The user's guard: Move<Up> transits once its counter has reached the
\* threshold; every other guard is free to answer either way (g).
guard(v, state, g) ==
    IF v = "MoveUpState" THEN From(state.cnt >= GuardThreshold) ELSE g

\* The user's Into<Destination>: consumes the source value, builds a new one.
into(state) == NewValue

\* A call in progress: the state value taken out of the slot and the hooks
\* invoked so far.
Call(ctx, h, v) ==
    [state |-> Apply(h, v, ctx.state), hooks |-> Append(ctx.hooks, h)]

(***************************************************************************)
(* The generated dispatcher, non-fallible (documented expansion, lib.rs)   *)
(***************************************************************************)
\* EntryPhase as a generator that ignores the pending-entry flag would emit it.
EntryPhase_Always(m, v, ctx, de) ==
    LET c1 == Call(ctx, StateEntry, v)
    IN IF HasTransit(m, v) THEN Call(c1, TransEntry, v) ELSE c1

\* EntryPhase without the transition's entry.
EntryPhase_StateOnly(m, v, ctx, de) ==
    IF de THEN Call(ctx, StateEntry, v) ELSE ctx

\* if self.do_entry { State::entry; Transition::entry; self.do_entry = false }
EntryPhase(m, v, ctx, de) ==
    IF de
    THEN LET c1 == Call(ctx, StateEntry, v)
         IN IF HasTransit(m, v) THEN Call(c1, TransEntry, v) ELSE c1
    ELSE ctx

\* ExecutePhase with the transition's execute emitted before the state's.
ExecutePhase_TransitionFirst(m, v, ctx) ==
    IF HasTransit(m, v)
    THEN Call(Call(ctx, TransExecute, v), StateExecute, v)
    ELSE Call(ctx, StateExecute, v)

\* ExecutePhase with the state-level execute left out for a state that has a
\* transition.
ExecutePhase_OnlyTransition(m, v, ctx) ==
    IF HasTransit(m, v)
    THEN Call(ctx, TransExecute, v)
    ELSE Call(ctx, StateExecute, v)

\* State::execute; Transition::execute
ExecutePhase(m, v, ctx) ==
    LET c1 == Call(ctx, StateExecute, v)
    IN IF HasTransit(m, v) THEN Call(c1, TransExecute, v) ELSE c1

\* State::exit; Transition::exit
ExitPhase(m, v, ctx) ==
    LET c1 == Call(ctx, StateExit, v)
    IN IF HasTransit(m, v) THEN Call(c1, TransExit, v) ELSE c1

\* TransitBranch that converts the value but keeps the source's variant tag.
TransitBranch_NoRetag(m, v, ctx) ==
    LET c1 == ExitPhase(m, v, ctx)
        c2 == Call(c1, Into, v)
    IN [states |-> [tag |-> v, slot |-> Some(into(c1.state))],
        do_entry |-> TRUE, hooks |-> c2.hooks, left |-> c1.state]

\* TransitBranch leaving the destination's slot empty.
TransitBranch_Empty(m, v, ctx) ==
    LET c1 == ExitPhase(m, v, ctx)
        c2 == Call(c1, Into, v)
    IN [states |-> [tag |-> Dest(m, v), slot |-> None],
        do_entry |-> TRUE, hooks |-> c2.hooks, left |-> c1.state]

\* TransitBranch that leaves the pending-entry flag cleared.
TransitBranch_EntryDone(m, v, ctx) ==
    LET c1 == ExitPhase(m, v, ctx)
        c2 == Call(c1, Into, v)
    IN [states |-> [tag |-> Dest(m, v), slot |-> Some(into(c1.state))],
        do_entry |-> FALSE, hooks |-> c2.hooks, left |-> c1.state]

\* The Transit arm: exits, the conversion, entry pending, the destination variant.
TransitBranch(m, v, ctx) ==
    LET c1 == ExitPhase(m, v, ctx)
        c2 == Call(c1, Into, v)
    IN [states |-> [tag |-> Dest(m, v), slot |-> Some(into(c1.state))],
        do_entry |-> TRUE, hooks |-> c2.hooks, left |-> c1.state]

\* RemainBranch re-tagging to the machine's initial variant instead of the
\* active one.
RemainBranch_Retag(m, v, ctx, de) ==
    [states |-> [tag |-> m.init.enum_name, slot |-> Some(ctx.state)],
     do_entry |-> de, hooks |-> ctx.hooks, left |-> ctx.state]

\* RemainBranch that does not put the value it took back.
RemainBranch_Empty(m, v, ctx, de) ==
    [states |-> [tag |-> v, slot |-> None],
     do_entry |-> de, hooks |-> ctx.hooks, left |-> ctx.state]

\* The Remain arm, which is also the whole arm of a state without a
\* transition: the state value goes back into the slot of its own variant.
RemainBranch(m, v, ctx, de) ==
    [states |-> [tag |-> v, slot |-> Some(ctx.state)],
     do_entry |-> de, hooks |-> ctx.hooks, left |-> ctx.state]

\* state_option.take() found nothing to take: the call gives up with
\* SfsmError::Internal, no hook invoked and the machine left as it was found.
InternalFault(st, de) ==
    [states |-> st, do_entry |-> de, hooks |-> <<>>, guard |-> None,
     result |-> "Internal"]

\* One branch of step()'s match: the whole call for the active variant.
\* st is self.states, de is self.do_entry, g the answer of a free guard.
step(m, st, de, g) ==
    IF st.slot = None THEN InternalFault(st, de)
    ELSE
    LET v == st.tag
        state == Head(st.slot)
        c0 == [state |-> state, hooks |-> <<>>]
        c1 == EntryPhase(m, v, c0, de)
        de1 == IF de THEN FALSE ELSE de
        c2 == ExecutePhase(m, v, c1)
    IN [result |-> "Ok"] @@
       (IF HasTransit(m, v)
        THEN LET c3 == Call(c2, Guard, v)
                 decision == guard(v, c2.state, g)
             IN [guard |-> Some(decision)] @@
                (IF decision = "Transit"
                 THEN TransitBranch(m, v, c3)
                 ELSE RemainBranch(m, v, c3, de1))
        ELSE [guard |-> None] @@ RemainBranch(m, v, c2, de1))

\* stop() calling a transition-level exit for every state.
stop_TransitionExitAlways(m, st) ==
    LET v == st.tag
        c0 == [state |-> Head(st.slot), hooks |-> <<>>]
        c1 == Call(c0, StateExit, v)
        c2 == Call(c1, TransExit, v)
    IN [states |-> [tag |-> v, slot |-> Some(c2.state)], hooks |-> c2.hooks,
        result |-> "Ok"]

\* stop() running the state's entry before its exits when the state has not
\* been entered yet.
stop_EntryFirst(m, st) ==
    LET v == st.tag
        c0 == [state |-> Head(st.slot), hooks |-> <<>>]
        c1 == IF c0.state.entered = 0 THEN Call(c0, StateEntry, v) ELSE c0
        c2 == Call(c1, StateExit, v)
        c3 == IF HasTransit(m, v) THEN Call(c2, TransExit, v) ELSE c2
    IN [states |-> [tag |-> v, slot |-> Some(c3.state)], hooks |-> c3.hooks,
        result |-> "Ok"]

\* stop(): the active state's exit, the transition's exit if it has one, and
\* the tagged union handed back with the final value.
stop(m, st) ==
    IF st.slot = None THEN InternalFault(st, FALSE)
    ELSE
    LET v == st.tag
        state == Head(st.slot)
        c0 == [state |-> state, hooks |-> <<>>]
        c1 == Call(c0, StateExit, v)
        c2 == IF HasTransit(m, v) THEN Call(c1, TransExit, v) ELSE c1
    IN [states |-> [tag |-> v, slot |-> Some(c2.state)], hooks |-> c2.hooks,
        result |-> "Ok"]

\* new(data) with the entry of the initial state marked as done.
new_EntryDone(m, data) ==
    [states |-> [tag |-> m.init.enum_name, slot |-> Some(data)], do_entry |-> FALSE]

\* new(data): the initial variant holding data, entry pending.
new(m, data) ==
    [states |-> [tag |-> m.init.enum_name, slot |-> Some(data)], do_entry |-> TRUE]

(***************************************************************************)
(* The generated dispatcher, fallible (TryState, TryTransition,            *)
(* TryErrorState, ExtendedSfsmError)                                       *)
(***************************************************************************)
\* ExtendedSfsmError::Internal.
Internal == [kind |-> "Internal", payload |-> None]

\* A user error wrapped as Internal, its payload gone.
Custom_AsInternal(e) == Internal

\* ExtendedSfsmError::Custom(T).
Custom(e) == [kind |-> "Custom", payload |-> Some(e)]

\* The state designated as the error state of the fallible machine m.
error_state(m) == Fault.enum_name

\* The hooks that return a Result in fallible mode (try_entry, try_execute,
\* try_exit of TryState and of TryTransition).
TryHooks == {StateEntry, TransEntry, StateExecute, TransExecute, StateExit, TransExit}

\* One unwrapped hook call: skipped once an earlier hook of the call has
\* failed; the f-th hook of the call is the one whose try_ function returns
\* Err (f = 0: none does).
TryCall(ctx, h, v, f) ==
    IF ctx.failed # None THEN ctx
    ELSE IF Len(ctx.hooks) + 1 = f /\ h \in TryHooks
    THEN [ctx EXCEPT !.hooks = Append(ctx.hooks, h), !.failed = Some(h)]
    ELSE [ctx EXCEPT !.state = Apply(h, v, ctx.state), !.hooks = Append(ctx.hooks, h)]

\* The entry phase of the error state: a pending Custom error is handed to
\* consume_error before the state's own entry hooks run.
ConsumePhase(m, v, ctx, de, err) ==
    IF de /\ v = error_state(m) /\ err # None /\ Head(err).kind = "Custom"
    THEN [ctx EXCEPT !.hooks = Append(ctx.hooks, ConsumeError),
                     !.consumed = Head(err).payload]
    ELSE ctx

TryEntryPhase(m, v, ctx, de, f) ==
    IF de
    THEN LET c1 == TryCall(ctx, StateEntry, v, f)
         IN IF HasTransit(m, v) THEN TryCall(c1, TransEntry, v, f) ELSE c1
    ELSE ctx

TryExecutePhase(m, v, ctx, f) ==
    LET c1 == TryCall(ctx, StateExecute, v, f)
    IN IF HasTransit(m, v) THEN TryCall(c1, TransExecute, v, f) ELSE c1

TryExitPhase(m, v, ctx, f) ==
    LET c1 == TryCall(ctx, StateExit, v, f)
    IN IF HasTransit(m, v) THEN TryCall(c1, TransExit, v, f) ELSE c1

\* A hook failed: the machine is re-tagged to the error variant, entry
\* pending, the wrapped error kept for the error state's consume_error.
ErrorBranch(m, v, ctx, e) ==
    [states |-> [tag |-> error_state(m), slot |-> Some(into(ctx.state))],
     do_entry |-> TRUE, hooks |-> ctx.hooks, left |-> ctx.state,
     error |-> Some(Custom(e)), result |-> "Err"]

\* The fallible dispatcher finding the slot empty: Err(ExtendedSfsmError::
\* Internal), no hook invoked and the machine left as it was found.
TryInternalFault(st, de) ==
    [states |-> st, do_entry |-> de, hooks |-> <<>>, guard |-> None,
     failed |-> None, consumed |-> None, error |-> Some(Internal), result |-> "Err"]

\* step() of the fallible dispatcher: the control flow of step with every
\* hook call unwrapped. err is the error waiting for consume_error, e the
\* payload a failing hook returns.
try_step(m, st, de, err, f, g, e) ==
    IF st.slot = None THEN TryInternalFault(st, de)
    ELSE
    LET v == st.tag
        state == Head(st.slot)
        c0 == [state |-> state, hooks |-> <<>>, failed |-> None, consumed |-> None]
        ca == ConsumePhase(m, v, c0, de, err)
        err1 == IF ca.consumed # None THEN None ELSE err
        c1 == TryEntryPhase(m, v, ca, de, f)
        de1 == IF de THEN FALSE ELSE de
        c2 == TryExecutePhase(m, v, c1, f)
        c3 == IF HasTransit(m, v) THEN TryCall(c2, Guard, v, f) ELSE c2
        decision == IF HasTransit(m, v) THEN Some(guard(v, c2.state, g)) ELSE None
        c4 == IF decision = Some("Transit") THEN TryExitPhase(m, v, c3, f) ELSE c3
        common == [consumed |-> ca.consumed, failed |-> c4.failed]
    IN IF c4.failed # None
       THEN [guard |-> IF Occurs(Guard, c4.hooks) THEN decision ELSE None]
            @@ common @@ ErrorBranch(m, v, c4, e)
       ELSE [guard |-> decision, error |-> err1, result |-> "Ok"] @@ common @@
            (IF decision = Some("Transit")
             THEN LET c5 == TryCall(c4, Into, v, f)
                  IN [states |-> [tag |-> Dest(m, v), slot |-> Some(into(c4.state))],
                      do_entry |-> TRUE, hooks |-> c5.hooks, left |-> c4.state]
             ELSE RemainBranch(m, v, c4, de1))

\* stop() of the fallible dispatcher: the exits, unwrapped.
try_stop(m, st, err, f, e) ==
    IF st.slot = None THEN TryInternalFault(st, FALSE)
    ELSE
    LET v == st.tag
        state == Head(st.slot)
        c0 == [state |-> state, hooks |-> <<>>, failed |-> None, consumed |-> None]
        c1 == TryExitPhase(m, v, c0, f)
    IN IF c1.failed # None
       THEN [failed |-> c1.failed] @@ ErrorBranch(m, v, c1, e)
       ELSE [states |-> [tag |-> v, slot |-> Some(c1.state)], hooks |-> c1.hooks,
             left |-> c1.state, failed |-> None, error |-> err, result |-> "Ok"]

(***************************************************************************)
(* The generated message glue (ForwardPushMessage, ForwardPollMessage)     *)
(***************************************************************************)
\* MessageError::StateIsNotActive without its payload.
StateIsNotActive_Empty(x) == [result |-> "StateIsNotActive", payload |-> None]

\* MessageError::StateIsNotActive(T): the failure carries a T.
StateIsNotActive(x) == [result |-> "StateIsNotActive", payload |-> Some(x)]

\* The unit value () that a failed poll carries.
Unit == 0

\* push_message refusing a state whose entry has not run yet.
push_message_AfterEntry(st, bound, message) ==
    IF st.tag = bound /\ Head(st.slot).entered > 0
    THEN [states |-> [st EXCEPT !.slot = Some(receive(Head(st.slot), message))],
          hooks |-> <<Receive>>, result |-> "Ok", payload |-> None]
    ELSE [states |-> st, hooks |-> <<>>] @@ StateIsNotActive(message)

\* ForwardPushMessage<State, Message>::push_message for the binding's state:
\* forwarded to the state if it is the active variant, else handed back.
push_message(st, bound, message) ==
    IF st.tag = bound
    THEN [states |-> [st EXCEPT !.slot = Some(receive(Head(st.slot), message))],
          hooks |-> <<Receive>>, result |-> "Ok", payload |-> None]
    ELSE [states |-> st, hooks |-> <<>>] @@ StateIsNotActive(message)

\* poll_message answering an inactive state with an empty success.
poll_message_Silent(st, bound) ==
    IF st.tag = bound
    THEN LET r == return_message(Head(st.slot))
         IN [states |-> [st EXCEPT !.slot = Some(r.state)],
             hooks |-> <<ReturnMessage>>, result |-> "Ok", payload |-> Some(r.message)]
    ELSE [states |-> st, hooks |-> <<>>, result |-> "Ok", payload |-> Some(None)]

\* ForwardPollMessage<State, Message>::poll_message for the binding's state:
\* the state's optional message if it is the active variant, else the failure.
poll_message(st, bound) ==
    IF st.tag = bound
    THEN LET r == return_message(Head(st.slot))
         IN [states |-> [st EXCEPT !.slot = Some(r.state)],
             hooks |-> <<ReturnMessage>>, result |-> "Ok", payload |-> Some(r.message)]
    ELSE [states |-> st, hooks |-> <<>>] @@ StateIsNotActive(Unit)

(***************************************************************************)
(* The state machine                                                       *)
(***************************************************************************)
NoError == <<>>
NoCall == [op |-> "none", from |-> "", taken |-> None, left |-> None,
           hooks |-> <<>>, guard |-> None, failed |-> None, bound |-> "",
           arg |-> None, result |-> "none", payload |-> None,
           attempts |-> <<>>, answers |-> <<>>]

\* No twin dispatcher is run, no declaration is being parsed.
NoTwin == [states |-> [tag |-> "", slot |-> None], do_entry |-> FALSE,
           hooks |-> <<>>, result |-> "none"]
NoDecl == <<>>

\* The value a call took out of the slot as the call left it, if it took one.
Left(r) == IF "left" \in DOMAIN r THEN Some(r.left) ELSE None

InitMode(md) ==
    /\ machine \in Machines
    /\ mode = md
    /\ phase = "NotStarted"
    /\ states = [tag |-> "", slot |-> None]
    /\ do_entry = FALSE
    /\ error = NoError
    /\ nsteps = 0
    /\ raised = <<>>
    /\ consumed = <<>>
    /\ last = NoCall
    /\ twin = NoTwin
    /\ input = NoDecl

Init == InitMode("plain")

Start ==
    /\ phase = "NotStarted"
    /\ LET r == new(machine, NewValue)
       IN /\ states' = r.states
          /\ do_entry' = r.do_entry
          /\ last' = [NoCall EXCEPT !.op = "start", !.result = "Ok"]
    /\ phase' = "Running"
    /\ UNCHANGED <<input, twin, machine, mode, error, nsteps, raised, consumed>>

Step ==
    /\ phase = "Running"
    /\ mode = "plain"
    /\ nsteps < MaxSteps
    /\ \E g \in TransitGuard :
          LET r == step(machine, states, do_entry, g)
          IN /\ states' = r.states
             /\ do_entry' = r.do_entry
             /\ last' = [NoCall EXCEPT !.op = "step", !.from = states.tag,
                                       !.taken = states.slot, !.left = Left(r),
                                       !.hooks = r.hooks, !.guard = r.guard,
                                       !.result = r.result]
    /\ nsteps' = nsteps + 1
    /\ UNCHANGED <<input, twin, machine, mode, phase, error, raised, consumed>>

Stop ==
    /\ phase = "Running"
    /\ mode = "plain"
    /\ LET r == stop(machine, states)
       IN /\ states' = r.states
          /\ last' = [NoCall EXCEPT !.op = "stop", !.from = states.tag,
                                    !.taken = states.slot, !.left = r.states.slot,
                                    !.hooks = r.hooks, !.result = r.result]
    /\ phase' = "Stopped"
    /\ UNCHANGED <<input, twin, machine, mode, do_entry, error, nsteps, raised, consumed>>

\* A caller pushes a Command through one of the machine's push bindings.
Push ==
    /\ phase = "Running"
    /\ \E b \in Bindings(machine, "Push"), message \in Commands :
          /\ states.tag = b.state.enum_name => Head(states.slot).received < MaxPushes
          /\ LET r == push_message(states, b.state.enum_name, message)
             IN /\ states' = r.states
                /\ last' = [NoCall EXCEPT !.op = "push", !.from = states.tag,
                                          !.taken = states.slot, !.left = r.states.slot,
                                          !.hooks = r.hooks, !.bound = b.state.enum_name,
                                          !.arg = Some(message),
                                          !.result = r.result, !.payload = r.payload]
    /\ UNCHANGED <<input, twin, machine, mode, phase, do_entry, error, nsteps, raised, consumed>>

\* A caller polls a Status through one of the machine's poll bindings.
Poll ==
    /\ phase = "Running"
    /\ \E b \in Bindings(machine, "Poll") :
          LET r == poll_message(states, b.state.enum_name)
          IN /\ states' = r.states
             /\ last' = [NoCall EXCEPT !.op = "poll", !.from = states.tag,
                                       !.taken = states.slot, !.left = r.states.slot,
                                       !.hooks = r.hooks, !.bound = b.state.enum_name,
                                       !.result = r.result, !.payload = r.payload]
    /\ UNCHANGED <<input, twin, machine, mode, phase, do_entry, error, nsteps, raised, consumed>>

Next == Start \/ Step \/ Stop \/ Push \/ Poll

\* The number of hooks one call can invoke, consume_error included.
MaxHooks == 9

InitFallible == InitMode("fallible") /\ machine = Loader

\* The record of a Custom error: its payload, the state and the hook that
\* raised it, the call that hook ran in and the state's counter at the time.
Raised(e, op, v, h, state) ==
    [payload |-> e, op |-> op, variant |-> v, hook |-> h, cnt |-> state.cnt]

TryStep ==
    /\ phase = "Running"
    /\ mode = "fallible"
    /\ nsteps < MaxSteps
    /\ \E g \in TransitGuard, f \in 0..MaxHooks :
          LET e == Len(raised) + 1
              r == try_step(machine, states, do_entry, error, f, g, e)
          IN /\ r.failed # None => Len(raised) < MaxErrors
             /\ states' = r.states
             /\ do_entry' = r.do_entry
             /\ error' = r.error
             /\ consumed' = consumed \o r.consumed
             /\ raised' = IF r.failed # None
                           THEN Append(raised, Raised(e, "step", states.tag,
                                                      Head(r.failed), r.left))
                           ELSE raised
             /\ last' = [NoCall EXCEPT !.op = "step", !.from = states.tag,
                                       !.taken = states.slot, !.left = Left(r),
                                       !.hooks = r.hooks, !.guard = r.guard,
                                       !.failed = r.failed, !.result = r.result,
                                       !.payload = IF r.result = "Err" THEN r.error
                                                   ELSE None]
    /\ nsteps' = nsteps + 1
    /\ UNCHANGED <<input, twin, machine, mode, phase>>

TryStop ==
    /\ phase = "Running"
    /\ mode = "fallible"
    /\ \E f \in 0..MaxHooks :
          LET e == Len(raised) + 1
              r == try_stop(machine, states, error, f, e)
          IN /\ r.failed # None => Len(raised) < MaxErrors
             /\ states' = r.states
             /\ error' = r.error
             /\ raised' = IF r.failed # None
                           THEN Append(raised, Raised(e, "stop", states.tag,
                                                      Head(r.failed), r.left))
                           ELSE raised
             /\ last' = [NoCall EXCEPT !.op = "stop", !.from = states.tag,
                                       !.taken = states.slot, !.left = Left(r),
                                       !.hooks = r.hooks, !.failed = r.failed,
                                       !.result = r.result,
                                       !.payload = IF r.result = "Err" THEN r.error
                                                   ELSE None]
    /\ phase' = "Stopped"
    /\ UNCHANGED <<input, twin, machine, mode, do_entry, nsteps, consumed>>

NextFallible == Start \/ TryStep \/ TryStop

SpecFallible == InitFallible /\ [][NextFallible]_vars

Spec == Init /\ [][Next]_vars

(***************************************************************************)
(* Properties                                                              *)
(***************************************************************************)
\* The position of a hook in the order the dispatcher is to keep.
Rank(h) ==
    CASE h = StateEntry -> 1
      [] h = TransEntry -> 2
      [] h = StateExecute -> 3
      [] h = TransExecute -> 4
      [] h = Guard -> 5
      [] h = StateExit -> 6
      [] h = TransExit -> 7
      [] h = Into -> 8

Count(h, hooks) == Cardinality({i \in 1..Len(hooks) : hooks[i] = h})
IsStep == last.op = "step"
IsStop == last.op = "stop"
Transited == IsStep /\ last.guard = Some("Transit")

\* C1: within one step() the hooks that run do so in the order state entry,
\* transition entry, state execute, transition execute, guard, state exit,
\* transition exit, conversion; no two of them run in the opposite order, and
\* the guard is only evaluated after the state's execute of the same step.
C1_HookOrder ==
    IsStep =>
        /\ \A i, j \in 1..Len(last.hooks) :
              i < j => Rank(last.hooks[i]) < Rank(last.hooks[j])
        /\ Occurs(StateExecute, last.hooks)
        /\ Occurs(Guard, last.hooks) =>
              \E i, j \in 1..Len(last.hooks) :
                 i < j /\ last.hooks[i] = StateExecute /\ last.hooks[j] = Guard

\* A step that ran all eight hooks.
C1_Witness ==
    /\ IsStep
    /\ last.hooks = <<StateEntry, TransEntry, StateExecute, TransExecute,
                      Guard, StateExit, TransExit, Into>>

\* C2 as stated: every activation that has ended (its state was replaced by
\* a transition, or the machine was stopped) saw entry exactly once and exit
\* exactly once.
C2_EntryExitExactlyOnce ==
    (Transited \/ IsStop) =>
        /\ Head(last.left).entered = 1
        /\ Head(last.left).exited = 1

\* C2 amended: entry runs at most once per activation, as the first hook of
\* the activation's first step and so right before its first execute, and
\* not at all when the machine is stopped while entry is still pending; exit
\* runs exactly once, in the call that replaces the state or stops the
\* machine, and in no other call.
C2_EntryExitPerActivation ==
    /\ phase = "Running" =>
          LET state == Head(states.slot)
          IN /\ state.exited = 0
             /\ state.entered = (IF do_entry THEN 0 ELSE 1)
             /\ do_entry <=> state.cnt = 0
    /\ IsStep =>
          /\ Occurs(StateEntry, last.hooks) <=> Head(last.taken).cnt = 0
          /\ Occurs(StateEntry, last.hooks) =>
                /\ last.hooks[1] = StateEntry
                /\ Count(StateEntry, last.hooks) = 1
                /\ \E i \in 2..3 :
                      /\ last.hooks[i] = StateExecute
                      /\ \A k \in 2..(i - 1) : last.hooks[k] = TransEntry
          /\ Occurs(StateExit, last.hooks) <=> Transited
    /\ Transited =>
          /\ Head(last.left).entered = 1
          /\ Head(last.left).exited = 1
          /\ Count(StateExit, last.hooks) = 1
    /\ IsStop =>
          /\ last.hooks[1] = StateExit
          /\ Count(StateExit, last.hooks) = 1
          /\ Head(last.left).exited = 1
          /\ Head(last.left).entered = (IF Head(last.left).cnt = 0 THEN 0 ELSE 1)

\* A state's second activation ends: Load was left, re-entered and left again.
C2_Witness ==
    /\ Transited
    /\ last.from = "LoadState"
    /\ nsteps >= 3
    /\ Head(last.left).entered = 1

\* C3: for a state with a declared transition, step() moves to the
\* transition's destination exactly when the guard of that step answered
\* Transit; on Remain the variant is the one before the step and its slot
\* holds the state value as the step's hooks left it.
C3_TransitIffGuard ==
    (IsStep /\ HasTransit(machine, last.from)) =>
        /\ last.guard # None
        /\ (states.tag = Dest(machine, last.from)) <=> (last.guard = Some("Transit"))
        /\ (states.tag # last.from) <=> (last.guard = Some("Transit"))
        /\ last.guard = Some("Remain") =>
              /\ states.tag = last.from
              /\ states.slot = last.left
              /\ states.slot # None
              /\ Head(states.slot).cnt = Head(last.taken).cnt + 1

\* A step that remained and one that transited, both from a state with a
\* transition.
C3_Witness ==
    /\ IsStep
    /\ HasTransit(machine, last.from)
    /\ last.guard = Some("Remain")
    /\ Head(states.slot).cnt = 2

\* C4: while the active state has no declared transition no call changes the
\* active variant (every change of variant starts in a state that has a
\* transition), and a step from such a state evaluates no guard.
C4_NoTransitionNoChange ==
    /\ []((IsStep /\ ~HasTransit(machine, last.from)) =>
             /\ states.tag = last.from
             /\ last.guard = None
             /\ ~Occurs(Guard, last.hooks))
    /\ [][(phase = "Running" /\ states'.tag # states.tag)
             => HasTransit(machine, states.tag)]_vars

\* A second step in a state that has no transition.
C4_Witness ==
    /\ IsStep
    /\ ~HasTransit(machine, last.from)
    /\ Head(states.slot).cnt >= 2

IsPush == last.op = "push"
IsPoll == last.op = "poll"

\* C6: push_message(m) for a bound state that is not the active variant
\* returns StateIsNotActive carrying exactly m, delivers m to no state, and
\* leaves the active variant, the state value and the pending-entry flag as
\* they were.
C6_PushInactive ==
    [][(last'.op = "push" /\ states.tag # last'.bound) =>
          /\ last'.result = "StateIsNotActive"
          /\ last'.payload = last'.arg
          /\ last'.arg # None
          /\ last'.hooks = <<>>
          /\ states' = states
          /\ do_entry' = do_entry]_vars

\* A push refused while Process is active and has executed.
C6_Witness ==
    /\ IsPush
    /\ last.from = "ProcessState"
    /\ last.bound = "LoadState"
    /\ last.result = "StateIsNotActive"
    /\ last.payload = Some(2)
    /\ Head(states.slot).cnt > 0

\* C7: poll_message() for a bound state that is not the active variant
\* always returns StateIsNotActive, never a success (empty or not); a
\* success is returned only while the bound state is active.
C7_PollInactive ==
    IsPoll =>
        /\ last.from # last.bound => last.result = "StateIsNotActive"
        /\ last.result = "Ok" => last.from = last.bound
        /\ last.result \in {"Ok", "StateIsNotActive"}

\* A poll refused while Process is active.
C7_Witness ==
    /\ IsPoll
    /\ last.from = "ProcessState"
    /\ last.bound = "LoadState"
    /\ last.result = "StateIsNotActive"

\* C8: with Command pushed into Load and Status polled from Load: while
\* Load is active every push succeeds and reaches Load's receive exactly
\* once, and a poll returns what Load's return_message yields; in any other
\* state both fail with StateIsNotActive and the push hands the Command back.
C8_ScenarioC ==
    machine = Loader =>
        /\ {[dir |-> b.message.dir, name |-> b.message.message.name,
             state |-> b.state.enum_name] :
               b \in Bindings(machine, "Push") \cup Bindings(machine, "Poll")}
             = {[dir |-> "Push", name |-> "Command", state |-> "LoadState"],
                [dir |-> "Poll", name |-> "Status", state |-> "LoadState"]}
        /\ (IsPush /\ last.from = "LoadState") =>
              /\ last.result = "Ok"
              /\ last.hooks = <<Receive>>
              /\ states.tag = "LoadState"
              /\ Head(states.slot).cmd = last.arg
              /\ Head(states.slot).received = Head(last.taken).received + 1
        /\ (IsPoll /\ last.from = "LoadState") =>
              /\ last.result = "Ok"
              /\ last.hooks = <<ReturnMessage>>
              /\ last.payload = Some(Head(last.taken).status)
              /\ states.tag = "LoadState"
        /\ (IsPush /\ last.from # "LoadState") =>
              /\ last.result = "StateIsNotActive"
              /\ last.payload = last.arg
              /\ last.hooks = <<>>
        /\ (IsPoll /\ last.from # "LoadState") =>
              /\ last.result = "StateIsNotActive"
              /\ last.hooks = <<>>

\* Load, active again after a round through Process, answers a poll with the
\* status its execute has set.
C8_Witness ==
    /\ machine = Loader
    /\ IsPoll
    /\ last.from = "LoadState"
    /\ nsteps >= 3
    /\ last.payload = Some(Some(1))

\* The error raised last, and how often consume_error has received payload e.
LastRaised == raised[Len(raised)]
TimesConsumed(e) == Cardinality({i \in 1..Len(consumed) : consumed[i] = e})

\* C9: in fallible mode, a step in which a try_ hook of the active state
\* returns an error leaves the machine in the error variant with entry
\* pending and that Custom error kept, and the next step starts by handing
\* exactly that payload to the error state's consume_error.
C9_ErrorRouted ==
    /\ [](IsStep /\ last.failed # None =>
             /\ last.result = "Err"
             /\ states.tag = error_state(machine)
             /\ states.slot # None
             /\ do_entry
             /\ error # None
             /\ Head(error).kind = "Custom"
             /\ Head(error).payload = Some(LastRaised.payload)
             /\ LastRaised.hook = Head(last.failed)
             /\ LastRaised.variant = last.from)
    /\ [][(error # None /\ nsteps' = nsteps + 1) =>
             /\ states.tag = error_state(machine)
             /\ last'.hooks[1] = ConsumeError
             /\ consumed' = Append(consumed, LastRaised.payload)
             /\ Head(error).payload = Some(LastRaised.payload)
             /\ Len(raised') > Len(raised) \/ error' = None]_vars

\* Scenario B: Load's third execute failed, and the step after it, in the
\* error state, began with consume_error receiving that payload.
C9_Witness ==
    /\ IsStep
    /\ nsteps = 4
    /\ last.from = "FaultState"
    /\ last.hooks = <<ConsumeError, StateEntry, StateExecute>>
    /\ raised = <<[payload |-> 1, op |-> "step", variant |-> "LoadState",
                   hook |-> StateExecute, cnt |-> 2]>>
    /\ consumed = <<1>>

\* C10: no Custom error is lost: once the machine has been stopped, every
\* Custom error a hook raised during a step has been received by the error
\* state's consume_error exactly once.
C10_NoErrorLost ==
    phase = "Stopped" =>
        \A i \in 1..Len(raised) :
            raised[i].op = "step" => TimesConsumed(raised[i].payload) = 1

(***************************************************************************)
(* The two dispatchers side by side: the same declaration, the same hooks, *)
(* the same calls, and no hook of the fallible one returning an error      *)
(***************************************************************************)
InitPair == InitMode("pair") /\ machine = Loader

\* What is kept of a call of the fallible dispatcher.
Twin(t, de) ==
    [states |-> t.states, do_entry |-> de, hooks |-> t.hooks, result |-> t.result]

PairStart ==
    /\ phase = "NotStarted"
    /\ mode = "pair"
    /\ LET r == new(machine, NewValue)
       IN /\ states' = r.states
          /\ do_entry' = r.do_entry
          /\ twin' = Twin([hooks |-> <<>>, result |-> "Ok"] @@ r, r.do_entry)
          /\ last' = [NoCall EXCEPT !.op = "start", !.result = "Ok"]
    /\ phase' = "Running"
    /\ UNCHANGED <<input, machine, mode, error, nsteps, raised, consumed>>

PairStep ==
    /\ phase = "Running"
    /\ mode = "pair"
    /\ nsteps < MaxSteps
    /\ \E g \in TransitGuard :
          LET r == step(machine, states, do_entry, g)
              t == try_step(machine, twin.states, twin.do_entry, NoError, 0, g, 0)
          IN /\ states' = r.states
             /\ do_entry' = r.do_entry
             /\ twin' = Twin(t, t.do_entry)
             /\ last' = [NoCall EXCEPT !.op = "step", !.from = states.tag,
                                       !.taken = states.slot, !.left = Left(r),
                                       !.hooks = r.hooks, !.guard = r.guard,
                                       !.result = r.result]
    /\ nsteps' = nsteps + 1
    /\ UNCHANGED <<input, machine, mode, phase, error, raised, consumed>>

PairStop ==
    /\ phase = "Running"
    /\ mode = "pair"
    /\ LET r == stop(machine, states)
           t == try_stop(machine, twin.states, NoError, 0, 0)
       IN /\ states' = r.states
          /\ twin' = Twin(t, twin.do_entry)
          /\ last' = [NoCall EXCEPT !.op = "stop", !.from = states.tag,
                                    !.taken = states.slot, !.left = r.states.slot,
                                    !.hooks = r.hooks, !.result = r.result]
    /\ phase' = "Stopped"
    /\ UNCHANGED <<input, machine, mode, do_entry, error, nsteps, raised, consumed>>

NextPair == PairStart \/ PairStep \/ PairStop

SpecPair == InitPair /\ [][NextPair]_vars

\* C11: driven by the same start, step and stop calls, with no hook
\* returning an error, the fallible dispatcher invokes after every call the
\* same hooks in the same order as the non-fallible one, has the same active
\* variant holding the same value, and the same pending-entry flag.
C11_SameStepSemantics ==
    phase # "NotStarted" =>
        /\ twin.hooks = last.hooks
        /\ twin.states = states
        /\ twin.do_entry = do_entry
        /\ twin.result = "Ok"
        /\ last.result = "Ok"

\* Both dispatchers have stepped from Load to Process and back, and the last
\* step ran Load's entry again in both.
C11_Witness ==
    /\ IsStep
    /\ nsteps = 3
    /\ last.from = "LoadState"
    /\ Head(last.taken).cnt = 0
    /\ twin.hooks = <<StateEntry, TransEntry, StateExecute, TransExecute, Guard>>
    /\ twin.states.tag = "LoadState"
    /\ ~twin.do_entry

\* C12: while the machine is started and not stopped the tagged union has
\* one active variant, a declared one, and its slot holds a value; every
\* step found a value in the slot and put one back before returning, the
\* value it took (on Remain) or its conversion (on Transit).
C12_SlotHoldsValue ==
    /\ phase = "Running" =>
          /\ states.tag \in Variants(machine)
          /\ states.slot # None
          /\ Len(states.slot) = 1
    /\ IsStep =>
          /\ last.taken # None
          /\ last.left # None
          /\ states.slot = IF Transited THEN Some(into(Head(last.left)))
                           ELSE last.left

\* A step took a value that earlier steps had put back, converted it and
\* left the conversion in the destination's slot.
C12_Witness ==
    /\ Transited
    /\ Head(last.taken).cnt >= 2
    /\ states.slot = Some(NewValue)
    /\ states.tag = Dest(machine, last.from)

(***************************************************************************)
(* Both dispatchers, driven by start, step and stop                        *)
(***************************************************************************)
InitAll ==
    \/ InitMode("plain")
    \/ InitMode("fallible") /\ machine = Loader

NextAll == Start \/ Step \/ Stop \/ TryStep \/ TryStop

SpecAll == InitAll /\ [][NextAll]_vars

\* C13: no call of start, step or stop reports the Internal error, in
\* non-fallible mode (SfsmError::Internal) or in fallible mode
\* (ExtendedSfsmError::Internal) whatever errors the hooks return: every
\* error a call returns or keeps for consume_error is a Custom one.
C13_NeverInternal ==
    /\ last.result # "Internal"
    /\ (last.op \in {"step", "stop"} /\ last.result = "Err") =>
          Head(last.payload).kind = "Custom"
    /\ error # None => Head(error).kind = "Custom"

\* A fallible machine whose hooks failed twice, the second time in the error
\* state, stepped again in the error state without any error.
C13_Witness ==
    /\ mode = "fallible"
    /\ IsStep
    /\ Len(raised) = 2
    /\ raised[2].variant = "FaultState"
    /\ last.from = "FaultState"
    /\ last.result = "Ok"

\* The variants the declared transitions of the state of variant v lead to.
Destinations(m, v) ==
    {StateOf(m, v).transits[i].enum_name : i \in 1..Len(StateOf(m, v).transits)}

\* C14: the instance begins not started; start makes the declared initial
\* state the active variant, holding the initial value, with entry pending;
\* from then on the active variant only changes to a destination of a
\* declared transition of the variant active before; stop can be called
\* whenever the machine is running, and no call follows it.
C14_Lifecycle ==
    /\ phase = "NotStarted"
    /\ [][phase = "NotStarted" =>
             /\ phase' = "Running"
             /\ machine.init.enum_name \in Variants(machine)
             /\ states' = [tag |-> machine.init.enum_name, slot |-> Some(NewValue)]
             /\ do_entry']_vars
    /\ [][(phase = "Running" /\ states'.tag # states.tag) =>
             states'.tag \in Destinations(machine, states.tag)]_vars
    /\ [](phase = "Running" => ENABLED Stop)
    /\ [][phase # "Stopped"]_vars

\* A machine that was started, moved along a declared transition and was
\* stopped in the destination.
C14_Witness ==
    /\ phase = "Stopped"
    /\ IsStop
    /\ nsteps >= 1
    /\ last.from # machine.init.enum_name
    /\ last.from \in Destinations(machine, machine.init.enum_name)

\* C15: stop() in any declared state runs the state's exit, then the
\* transition's exit if and only if the state declares a transition, and no
\* other hook (no entry, execute, guard or conversion); it hands back the
\* tagged union with the variant it found, holding the value after the exits.
C15_StopRunsExits ==
    IsStop =>
        /\ last.hooks = IF HasTransit(machine, last.from)
                        THEN <<StateExit, TransExit>> ELSE <<StateExit>>
        /\ states.tag = last.from
        /\ states.slot = Some([Head(last.taken) EXCEPT !.exited = @ + 1])
        /\ last.left = states.slot
        /\ last.result = "Ok"

\* The Elevator stopped in MoveDown, which declares no transition: only the
\* state's exit ran.
C15_Witness ==
    /\ machine = Elevator
    /\ IsStop
    /\ last.from = "MoveDownState"
    /\ last.hooks = <<StateExit>>
    /\ Head(states.slot).cnt >= 1
    /\ Head(states.slot).exited = 1

\* C16: one step() changes the active variant at most once, to the
\* destination of the active state's transition; the step in which the
\* transition fires ends with the conversion and runs no hook of the
\* destination, whose value is left as converted with entry pending; a step
\* that remains leaves entry not pending; the destination's entry and first
\* execute run in the step that follows the transiting one.
C16_DestinationEntersNextStep ==
    /\ [](IsStep =>
            /\ Count(Into, last.hooks) <= 1
            /\ Transited =>
                  /\ states.tag = Dest(machine, last.from)
                  /\ last.hooks[Len(last.hooks)] = Into
                  /\ states.slot = Some(into(Head(last.left)))
                  /\ Head(states.slot).entered = 0
                  /\ Head(states.slot).cnt = 0
                  /\ do_entry
            /\ ~Transited => states.tag = last.from /\ ~do_entry)
    /\ [][(Transited /\ last'.op = "step") =>
             /\ last'.from = states.tag
             /\ last'.hooks[1] = StateEntry
             /\ Occurs(StateExecute, last'.hooks)
             /\ Head(last'.left).entered = 1
             /\ Head(last'.left).cnt = 1]_vars

\* The step after a transiting one: it found the destination's value as
\* converted and ran the destination's entry and first execute.
C16_Witness ==
    /\ IsStep
    /\ nsteps >= 2
    /\ last.from # machine.init.enum_name
    /\ Head(last.taken).entered = 0
    /\ last.hooks[1] = StateEntry
    /\ Head(last.left).entered = 1
    /\ Head(last.left).cnt = 1

\* C20: stop() called while entry is still pending (right after start, or
\* right after a step in which the transition fired) runs the active
\* state's exit, and its transition's exit if it declares one, on a value
\* whose entry never ran; stop runs no entry hook and leaves the
\* pending-entry flag as it found it.
C20_ExitWithoutEntry ==
    /\ []((IsStop /\ do_entry) =>
            /\ Head(last.taken).entered = 0
            /\ Head(states.slot).entered = 0
            /\ Head(states.slot).exited = 1
            /\ last.hooks[1] = StateExit
            /\ HasTransit(machine, last.from) => Occurs(TransExit, last.hooks))
    /\ [](IsStop => ~Occurs(StateEntry, last.hooks) /\ ~Occurs(TransEntry, last.hooks))
    /\ [][last'.op = "stop" => do_entry' = do_entry]_vars

\* The Loader stopped right after the step that moved it to Process: the
\* exits of Process and of its transition ran, its entry never did.
C20_Witness ==
    /\ IsStop
    /\ do_entry
    /\ nsteps >= 1
    /\ last.from = "ProcessState"
    /\ last.hooks = <<StateExit, TransExit>>
    /\ Head(states.slot).entered = 0

(***************************************************************************)
(* The parser run on declarations (parsers.rs, impl Parse for Machine)     *)
(***************************************************************************)
\* State names as written in a declaration: Move<Up>, MoveUp, Move<Down>.
StateRefs ==
    {[name |-> "Move", generics |-> <<"<", "Up", ">">>],
     [name |-> "MoveUp", generics |-> <<>>],
     [name |-> "Move", generics |-> <<"<", "Down", ">">>]}

\* The two tokens a declaration may put between source and destination.
Arrows == {"=>", "->"}

\* The sequences over S of length lo to hi.
SeqsOf(S, lo, hi) == UNION {[1..n -> S] : n \in lo..hi}

\* add_state_machine!(M, init, [states], [transitions]) over the StateRefs.
Declarations ==
    [name : {"M"},
     init : StateRefs,
     states : SeqsOf(StateRefs, 1, MaxStates),
     transitions : SeqsOf([src : StateRefs, arrow : Arrows, dst : StateRefs],
                          0, MaxTransitions)]

NoMachine == [name |-> "", init |-> ParseState("", <<>>), states |-> <<>>,
              enum_name |-> ""]

\* Machine::parse on a declaration: Err if a transition is not written with
\* =>, else Ok with the machine built from the parsed states and transitions.
ParseInput(d) ==
    LET state(r) == ParseState(r.name, r.generics)
    IN IF \E i \in 1..Len(d.transitions) : d.transitions[i].arrow # "=>"
       THEN [ok |-> FALSE, machine |-> NoMachine]
       ELSE [ok |-> TRUE,
             machine |->
                ParseMachine(d.name, state(d.init),
                    [i \in 1..Len(d.states) |-> state(d.states[i])],
                    [i \in 1..Len(d.transitions) |->
                        ParseTransition(state(d.transitions[i].src),
                                        state(d.transitions[i].dst))])]

InitInput(md, declarations) ==
    /\ input \in declarations
    /\ machine = NoMachine
    /\ mode = md
    /\ phase = "Unparsed"
    /\ states = [tag |-> "", slot |-> None]
    /\ do_entry = FALSE
    /\ error = NoError
    /\ nsteps = 0
    /\ raised = <<>>
    /\ consumed = <<>>
    /\ last = NoCall
    /\ twin = NoTwin

InitParse == InitInput("parse", Declarations)

\* The macro expands: the declaration is parsed; an accepted one yields the
\* machine the dispatcher is generated from.
Parse ==
    /\ phase = "Unparsed"
    /\ LET p == ParseInput(input)
       IN /\ machine' = p.machine
          /\ phase' = IF p.ok THEN "NotStarted" ELSE "Rejected"
    /\ UNCHANGED <<input, twin, mode, states, do_entry, error, nsteps, raised,
                   consumed, last>>

NextParse == Parse

SpecParse == InitParse /\ [][NextParse]_vars

\* The declaration was accepted by the parser.
Parsed == input # NoDecl /\ phase \notin {"Unparsed", "Rejected"}

\* A StateRef: the base name and the parameter list as rendered.
Ref(s) == <<s.name, s.generics>>

\* The StateRefs of the declared state list of m.
Declared(m) == {Ref(m.states[i]) : i \in 1..Len(m.states)}

\* C17: every declaration the parser accepts yields a graph whose initial
\* StateRef is a declared state and in which the destination list of each
\* declared state holds exactly the destinations of the declared transitions
\* from that state whose destination is declared too: a transition naming an
\* undeclared state as source or destination is in no list.
C17_ValidatedGraph ==
    Parsed =>
        /\ Ref(machine.init) \in Declared(machine)
        /\ \A i \in 1..Len(machine.states) :
              LET kept == SelectSeq(input.transitions,
                             LAMBDA t : /\ Ref(t.src) = Ref(machine.states[i])
                                        /\ Ref(t.dst) \in Declared(machine))
              IN /\ Len(machine.states[i].transits) = Len(kept)
                 /\ \A k \in 1..Len(kept) :
                       Ref(machine.states[i].transits[k]) = Ref(kept[k].dst)

\* The StateRefs a declaration names anywhere.
AllRefs(d) ==
    {d.init} \cup {d.states[i] : i \in 1..Len(d.states)}
             \cup {d.transitions[j].src : j \in 1..Len(d.transitions)}
             \cup {d.transitions[j].dst : j \in 1..Len(d.transitions)}

\* C19: a declaration in which two distinct StateRefs flatten to the same
\* variant name is rejected by the parser, and the destination list of a
\* declared state holds only the transitions declared from that very StateRef
\* (none declared from another StateRef with the same variant name).
C19_CollisionRejected ==
    Parsed =>
        /\ \A r1, r2 \in AllRefs(input) :
              state_to_enum(r1.name, r1.generics) = state_to_enum(r2.name, r2.generics)
                 => r1 = r2
        /\ \A i \in 1..Len(machine.states) :
              Len(machine.states[i].transits) =
                 Cardinality({j \in 1..Len(input.transitions) :
                                 Ref(input.transitions[j].src) = Ref(machine.states[i])})

(***************************************************************************)
(* States with several declared transitions                                *)
(***************************************************************************)
\* The declared transitions of the state of variant v, as destinations.
Transits(m, v) == StateOf(m, v).transits

\* A transition-level hook called once for each of n declared transitions.
RECURSIVE CallEach(_, _, _, _)
CallEach(ctx, h, v, n) ==
    IF n = 0 THEN ctx ELSE Call(CallEach(ctx, h, v, n - 1), h, v)

\* The guards of the state's transitions from the k-th on, attempted in the
\* order of the destination list until one answers Transit. gs[k] is the
\* answer of the k-th transition's guard where it is free.
RECURSIVE GuardChain(_, _, _, _, _)
GuardChain(m, v, ctx, gs, k) ==
    IF k > Len(Transits(m, v))
    THEN [fired |-> 0, ctx |-> ctx, answers |-> <<>>]
    ELSE LET c == Call(ctx, Guard, v)
             decision == guard(v, ctx.state, gs[k])
         IN IF decision = "Transit"
            THEN [fired |-> k, ctx |-> c, answers |-> <<decision>>]
            ELSE LET rest == GuardChain(m, v, c, gs, k + 1)
                 IN [rest EXCEPT !.answers = <<decision>> \o @]

\* step() for a state with any number of declared transitions: the phases
\* of step with every transition's entry and execute, the guards attempted
\* in declaration order, and the Transit arm of the first that fires.
step_multi(m, st, de, gs) ==
    IF st.slot = None
    THEN [attempts |-> <<>>, answers |-> <<>>] @@ InternalFault(st, de)
    ELSE
    LET v == st.tag
        n == Len(Transits(m, v))
        c0 == [state |-> Head(st.slot), hooks |-> <<>>]
        c1 == IF de THEN CallEach(Call(c0, StateEntry, v), TransEntry, v, n) ELSE c0
        de1 == IF de THEN FALSE ELSE de
        c2 == CallEach(Call(c1, StateExecute, v), TransExecute, v, n)
        chain == GuardChain(m, v, c2, gs, 1)
        common ==
            [result |-> "Ok", answers |-> chain.answers,
             attempts |-> [k \in 1..Len(chain.answers) |-> Transits(m, v)[k].enum_name],
             guard |-> IF n = 0 THEN None
                       ELSE Some(IF chain.fired = 0 THEN "Remain" ELSE "Transit")]
    IN IF chain.fired = 0
       THEN common @@ RemainBranch(m, v, chain.ctx, de1)
       ELSE LET c3 == Call(chain.ctx, StateExit, v)
                c4 == Call(c3, TransExit, v)
                c5 == Call(c4, Into, v)
            IN common @@
               [states |-> [tag |-> Transits(m, v)[chain.fired].enum_name,
                            slot |-> Some(into(c4.state))],
                do_entry |-> TRUE, hooks |-> c5.hooks, left |-> c4.state]

\* Load, Process, Fault as written in a declaration.
RouterRefs ==
    {[name |-> "Load", generics |-> <<>>], [name |-> "Process", generics |-> <<>>],
     [name |-> "Fault", generics |-> <<>>]}

\* add_state_machine!(Router, Load, [Load, Process, Fault], [...]) with up to
\* MaxTransitions transitions out of Load and Process.
RouterDeclarations ==
    [name : {"Router"},
     init : {[name |-> "Load", generics |-> <<>>]},
     states : {<<[name |-> "Load", generics |-> <<>>],
                 [name |-> "Process", generics |-> <<>>],
                 [name |-> "Fault", generics |-> <<>>]>>},
     transitions :
        SeqsOf({t \in [src : RouterRefs, arrow : {"=>"}, dst : RouterRefs] :
                   t.src.name # "Fault" /\ t.src # t.dst},
               0, MaxTransitions)]

InitMulti == InitInput("multi", RouterDeclarations)

MultiStep ==
    /\ phase = "Running"
    /\ mode = "multi"
    /\ nsteps < MaxSteps
    /\ \E gs \in [1..MaxTransitions -> TransitGuard] :
          LET r == step_multi(machine, states, do_entry, gs)
          IN /\ states' = r.states
             /\ do_entry' = r.do_entry
             /\ last' = [NoCall EXCEPT !.op = "step", !.from = states.tag,
                                       !.taken = states.slot, !.left = Left(r),
                                       !.hooks = r.hooks, !.guard = r.guard,
                                       !.result = r.result,
                                       !.attempts = r.attempts,
                                       !.answers = r.answers]
    /\ nsteps' = nsteps + 1
    /\ UNCHANGED <<input, twin, machine, mode, phase, error, raised, consumed>>

NextMulti == Parse \/ Start \/ MultiStep

SpecMulti == InitMulti /\ [][NextMulti]_vars

C21_MessagesIgnorePendingEntry ==
    /\ []((IsPush \/ IsPoll) =>
            /\ last.bound = last.from =>
                  /\ last.result = "Ok"
                  /\ last.hooks = IF IsPush THEN <<Receive>> ELSE <<ReturnMessage>>
                  /\ Head(states.slot).entered = Head(last.taken).entered
            /\ states.tag = last.from)
    /\ [][last'.op \in {"push", "poll"} =>
             /\ states'.tag = states.tag
             /\ do_entry' = do_entry]_vars
    /\ [][(phase = "Running" /\ do_entry' # do_entry) => last'.op = "step"]_vars

\* Right after start, entry still pending, a Command was pushed to Load and
\* received by it although Load's entry has not run.
C21_Witness ==
    /\ IsPush
    /\ last.result = "Ok"
    /\ do_entry
    /\ nsteps = 0
    /\ states.tag = "LoadState"
    /\ Head(states.slot).entered = 0
    /\ Head(states.slot).received = 1

====
